---- MODULE Spec2Model ----
(***************************************************************************)
(* Model of weaver-solver (src/src/main.rs): the Word codec (Word::new,    *)
(* get_letter, distance, Display), the graph builder connect_words and the *)
(* A* search weave.                                                        *)
(*                                                                         *)
(* A Vec is a sequence; the code's 0-based index i is position i + 1.      *)
(* A char is its Unicode code point, a String the sequence of its chars.   *)
(***************************************************************************)
EXTENDS Integers, Sequences, FiniteSets, TLC

VARIABLES
    \* ---- codec runs (Word::new / Display)
    cpc,        \* "str" | "val" | "encoded" | "shown" | "back" | "again" | "panic" | "idle"
    cin,        \* the input of the run: a String or a u32
    cstr,       \* the String at hand
    cword,      \* the Word at hand (its u32)
    \* ---- connect_words runs
    bpc,        \* "input" | "loop" | "returned" | "idle"
    bin,        \* the Vec<Word> connect_words was called with
    bwords,     \* local `words`
    bnodes,     \* local `word_nodes`
    bgrid,      \* local `grid`, kept as the map of its Some entries
    bidx,       \* the outer loop's idx
    \* ---- weave runs
    pc,         \* "call" | "loop" | "rebuild" | "done" | "panic" | "idle"
    start, end, \* weave's arguments
    words,      \* weave's argument `words`: the Vec<WordNode>
    open, g_score, f_score, came_from,
    node,       \* the node selected by min_by_key (rebuild: the inner `node`)
    path,       \* local `path`
    result,     \* the returned Option<Vec<Word>>
    prev        \* the result of an earlier call with the same arguments

cvars == <<cpc, cin, cstr, cword>>
bvars == <<bpc, bin, bwords, bnodes, bgrid, bidx>>
wvars == <<pc, start, end, words, open, g_score, f_score, came_from, node, path, result, prev>>
vars == <<cvars, bvars, wvars>>

\* ------------------------------------------------------------------ constants
Radix == 26
WordLen == 4
LastPos == 3
CharA == 97
CharZ == 122
ByteMod == 256
U16Mod == 65536
U16Max == 65535
\* u32::MAX (0xFFFF_FFFF), written as the 32-bit integer of the same bit pattern: the
\* model checker's integers are 32-bit signed. It is only ever compared for equality.
U32Max == -1

\* ------------------------------------------------------------------ bounds
\* letters 0..MaxLow at position 3 in the word universe
MaxLow == 2
\* most nodes of a graph handed to weave
MaxNodes == 5
\* longest Vec<Word> handed to connect_words
MaxWords == 4
\* longest String handed to Word::new outside the systematic 4-letter words
MaxStrLen == 5

None == [some |-> FALSE]
NoCall == [called |-> FALSE]
Some(x) == [some |-> TRUE, val |-> x]

\* u32::pow
Pow(b, e) == b ^ e

At(v, i) == v[i + 1]

\* ------------------------------------------------------------------ Word codec
\* str::len: the length in bytes of the UTF-8 encoding
Utf8Len(c) == IF c < 128 THEN 1 ELSE IF c < 2048 THEN 2 ELSE IF c < 65536 THEN 3 ELSE 4

RECURSIVE StrLen(_)
StrLen(s) == IF s = <<>> THEN 0 ELSE Utf8Len(Head(s)) + StrLen(Tail(s))

IsLower(c) == CharA <= c /\ c <= CharZ

\* the asserts of Word::new: either one failing panics
WordNewPanics(s) == StrLen(s) # WordLen \/ \E i \in 1..Len(s) : ~IsLower(s[i])

\* word += c * 26u32.pow(3 - i), over s.chars().enumerate()
RECURSIVE WordNewSum(_, _)
WordNewSum(s, i) ==
    IF i = Len(s) THEN 0
    ELSE ((At(s, i) % ByteMod) - CharA) * Pow(Radix, LastPos - i) + WordNewSum(s, i + 1)

\* the positions gone wrong: the first letter weighs least
RECURSIVE WordNewSumReversed(_, _)
WordNewSumReversed(s, i) ==
    IF i = Len(s) THEN 0
    ELSE ((At(s, i) % ByteMod) - CharA) * Pow(Radix, i) + WordNewSumReversed(s, i + 1)

Word_new_reversed(s) == WordNewSumReversed(s, 0)

Word_new(s) == WordNewSum(s, 0)

get_letter(w, i) == (w % Pow(Radix, WordLen - i)) \div Pow(Radix, LastPos - i)

\* (b'a' + c as u8) as char for i in 0..4
Display(w) == [p \in 1..WordLen |-> CharA + (get_letter(w, p - 1) % ByteMod)]

BoolToInt(b) == IF b THEN 1 ELSE 0

RECURSIVE DistanceFrom(_, _, _)
DistanceFrom(a, b, i) ==
    IF i = WordLen THEN 0
    ELSE BoolToInt(get_letter(a, i) # get_letter(b, i)) + DistanceFrom(a, b, i + 1)

distance(a, b) == DistanceFrom(a, b, 0)

\* ------------------------------------------------------------------ codec runs
NumWords == Pow(Radix, WordLen)

\* every 4-letter word over a..z
FourLetter == [1..WordLen -> CharA..CharZ]

\* the alphabet's ends, the chars next to them, and chars of 2, 3 and 4 UTF-8 bytes
OddChars == {CharA, CharZ, CharA - 1, CharZ + 1, 233, 8364, 128512}

OddStrings == UNION {[1..n -> OddChars] : n \in 0..MaxStrLen}

CodecIdle == cpc = "idle" /\ cin = None /\ cstr = <<>> /\ cword = 0

CodecInit ==
    /\ \/ /\ cin \in {[kind |-> "str", s |-> s] : s \in FourLetter \cup OddStrings}
          /\ cpc = "str" /\ cstr = cin.s /\ cword = 0
       \/ /\ cin \in {[kind |-> "val", v |-> v] : v \in 0..(NumWords - 1)}
          /\ cpc = "val" /\ cstr = <<>> /\ cword = cin.v

\* Word::new(s): a failing assert panics, and nothing catches the panic
WordNew ==
    /\ cpc \in {"str", "shown"}
    /\ IF WordNewPanics(cstr)
       THEN cpc' = "panic" /\ UNCHANGED cword
       ELSE /\ cword' = Word_new(cstr)
            /\ cpc' = IF cpc = "str" THEN "encoded" ELSE "again"
    /\ UNCHANGED <<cin, cstr, bvars, wvars>>

\* format!("{word}")
Fmt ==
    /\ cpc \in {"val", "encoded"}
    /\ cstr' = Display(cword)
    /\ cpc' = IF cpc = "val" THEN "shown" ELSE "back"
    /\ UNCHANGED <<cin, cword, bvars, wvars>>

CodecNext == WordNew \/ Fmt

BuildIdle ==
    /\ bpc = "idle" /\ bin = <<>> /\ bwords = <<>> /\ bnodes = <<>>
    /\ bgrid = <<>> /\ bidx = 0

WeaveIdle ==
    /\ pc = "idle" /\ start = 0 /\ end = 0 /\ words = <<>> /\ open = {}
    /\ g_score = <<>> /\ f_score = <<>> /\ came_from = <<>> /\ node = 0
    /\ path = <<>> /\ result = None /\ prev = NoCall

CodecStart == CodecInit /\ BuildIdle /\ WeaveIdle

CodecSpec == CodecStart /\ [][CodecNext]_vars

\* ------------------------------------------------------------------ connect_words
\* the words handed to connect_words and weave: 'a', 'b' or 'z' at position 0,
\* a letter 0..MaxLow at position 3, 'a' elsewhere
HighLetters == {0, 1, Radix - 1}

Universe == {h * Pow(Radix, LastPos) + l : h \in HighLetters, l \in 0..MaxLow}

RECURSIVE InsertSorted(_, _)
InsertSorted(v, x) ==
    IF v = <<>> THEN <<x>>
    ELSE IF x <= Head(v) THEN <<x>> \o v
    ELSE <<Head(v)>> \o InsertSorted(Tail(v), x)

\* words.sort_unstable(): ascending by the derived Ord of Word(u32)
RECURSIVE Sort(_)
Sort(v) == IF v = <<>> THEN <<>> ELSE InsertSorted(Sort(Tail(v)), Head(v))

\* the dedup left out
DedupNone(v) == v

\* words.dedup(): drops each element equal to the one before it
RECURSIVE Dedup(_)
Dedup(v) ==
    IF Len(v) <= 1 THEN v
    ELSE IF v[1] = v[2] THEN Dedup(Tail(v))
    ELSE <<v[1]>> \o Dedup(Tail(v))

WordNode(w) == [word |-> w, connected |-> <<>>]

NewNodes(ws) == [k \in 1..Len(ws) |-> WordNode(ws[k])]

\* vec![None; 26usize.pow(4)], kept as the map of the entries that are Some
EmptyGrid == <<>>

GridSet(grid, w, inz) == [x \in DOMAIN grid \cup {w} |-> IF x = w THEN inz ELSE grid[x]]

GridGet(grid, w) == IF w \in DOMAIN grid THEN Some(grid[w]) ELSE None

Push(nodes, i, x) == [nodes EXCEPT ![i + 1].connected = Append(@, x)]

\* the candidate gone wrong: always one step down, whatever i is
TestWordOneStep(word, i, offset) == word - offset

\* word.0 - i * offset
TestWord(word, i, offset) == word - i * offset

\* for i in 1..letter + 1 { ... }
RECURSIVE ConnectLetter(_, _, _, _, _, _, _)
ConnectLetter(nodes, grid, word, idx, offset, letter, i) ==
    IF i >= letter + 1 THEN nodes
    ELSE LET hit == GridGet(grid, TestWord(word, i, offset))
             nodes1 == IF hit.some
                       THEN Push(Push(nodes, hit.val - 1, idx), idx, hit.val - 1)
                       ELSE nodes
         IN  ConnectLetter(nodes1, grid, word, idx, offset, letter, i + 1)

\* for dim in 0..4 { ... }
RECURSIVE ConnectDim(_, _, _, _, _)
ConnectDim(nodes, grid, word, idx, dim) ==
    IF dim = WordLen THEN nodes
    ELSE ConnectDim(
             ConnectLetter(nodes, grid, word, idx, Pow(Radix, LastPos - dim),
                           get_letter(word, dim), 1),
             grid, word, idx, dim + 1)

\* one iteration of for (idx, word) in words.iter().enumerate()
ConnectIdx(st, ws, idx) ==
    LET grid1 == GridSet(st.grid, At(ws, idx), idx + 1)
    IN  [grid |-> grid1, nodes |-> ConnectDim(st.nodes, grid1, At(ws, idx), idx, 0)]

RECURSIVE ConnectFrom(_, _, _)
ConnectFrom(st, ws, idx) ==
    IF idx = Len(ws) THEN st.nodes ELSE ConnectFrom(ConnectIdx(st, ws, idx), ws, idx + 1)

connect_words(input) ==
    LET ws == Dedup(Sort(input))
    IN  ConnectFrom([grid |-> EmptyGrid, nodes |-> NewNodes(ws)], ws, 0)

\* ------------------------------------------------------------------ connect_words runs
Inputs == UNION {[1..n -> Universe] : n \in 0..MaxWords}

BuildInit ==
    /\ bin \in Inputs
    /\ bpc = "input" /\ bwords = bin /\ bnodes = <<>> /\ bgrid = EmptyGrid /\ bidx = 0

\* lines 105-116: sort, dedup, the nodes and the grid
SortDedup ==
    /\ bpc = "input"
    /\ bwords' = Dedup(Sort(bwords))
    /\ bnodes' = NewNodes(bwords')
    /\ bgrid' = EmptyGrid
    /\ bidx' = 0
    /\ bpc' = "loop"
    /\ UNCHANGED <<bin, cvars, wvars>>

\* lines 118-134, one word
ConnectWord ==
    /\ bpc = "loop"
    /\ bidx < Len(bwords)
    /\ LET st == ConnectIdx([grid |-> bgrid, nodes |-> bnodes], bwords, bidx)
       IN  bgrid' = st.grid /\ bnodes' = st.nodes
    /\ bidx' = bidx + 1
    /\ UNCHANGED <<bpc, bin, bwords, cvars, wvars>>

\* line 136
ConnectReturn ==
    /\ bpc = "loop"
    /\ bidx = Len(bwords)
    /\ bpc' = "returned"
    /\ UNCHANGED <<bin, bwords, bnodes, bgrid, bidx, cvars, wvars>>

BuildNext == SortDedup \/ ConnectWord \/ ConnectReturn

BuildStart == BuildInit /\ CodecIdle /\ WeaveIdle

BuildSpec == BuildStart /\ [][BuildNext]_vars

\* the stepwise run and the function agree (used to hand weave its graphs)
BuildAgrees == bpc = "returned" => bnodes = connect_words(bin)

\* ------------------------------------------------------------------ weave
\* u16 addition (wrapping, as a release build does)
AddU16(a, b) == (a + b) % U16Mod

\* words.iter().position(|n| n.word == start)
Position(ws, w) ==
    IF \E k \in 1..Len(ws) : ws[k].word = w
    THEN Some((CHOOSE k \in 1..Len(ws) : ws[k].word = w /\ \A j \in 1..(k - 1) : ws[j].word # w) - 1)
    ELSE None

\* the key of min_by_key
Key(g, ws, e, n) == AddU16(At(g, n), distance(At(ws, n).word, e))

\* the selection gone wrong: any member of the open set, the key ignored
MinByKeyAny(op, g, ws, e) == op

\* what open.iter().min_by_key(..) can yield: the first least element in the
\* HashSet's iteration order, which is any order (RandomState), so any least element
MinByKey(op, g, ws, e) ==
    LET least == CHOOSE x \in {Key(g, ws, e, m) : m \in op} :
                     \A y \in {Key(g, ws, e, m) : m \in op} : x <= y
    IN  {n \in op : Key(g, ws, e, n) = least}

\* the comparison gone wrong: inverted, and not strict
ImprovesInverted(tentative, g) == tentative > g

ImprovesOrEqual(tentative, g) == tentative <= g

\* tentative_g_score < g_score[n]
Improves(tentative, g) == tentative < g

\* for &n in &word.connected { ... }
RECURSIVE Relax(_, _, _, _, _)
Relax(st, ws, e, cur, k) ==
    LET conn == At(ws, cur).connected IN
    IF k > Len(conn) THEN st
    ELSE LET n == conn[k]
             tentative_g_score == AddU16(At(st.g, cur), distance(At(ws, cur).word, At(ws, n).word))
         IN  IF Improves(tentative_g_score, At(st.g, n))
             THEN Relax([open |-> st.open \cup {n},
                         g |-> [st.g EXCEPT ![n + 1] = tentative_g_score],
                         f |-> [st.f EXCEPT ![n + 1] =
                                   AddU16(tentative_g_score, distance(At(ws, n).word, e))],
                         cf |-> [st.cf EXCEPT ![n + 1] = cur]],
                        ws, e, cur, k + 1)
             ELSE Relax(st, ws, e, cur, k + 1)

\* the insertion gone wrong: path.push(w)
Insert0Push(p, w) == Append(p, w)

\* path.insert(0, w)
Insert0(p, w) == <<w>> \o p

\* ------------------------------------------------------------------ weave runs
RECURSIVE SortedSeq(_)
SortedSeq(S) ==
    IF S = {} THEN <<>>
    ELSE LET x == CHOOSE y \in S : \A z \in S : y <= z IN <<x>> \o SortedSeq(S \ {x})

\* start and end: a node's word, or the least word that is no node's
Choices(S) ==
    S \cup (IF S = Universe THEN {}
            ELSE {CHOOSE y \in Universe \ S : \A z \in Universe \ S : y <= z})

WeaveInit ==
    /\ \E S \in SUBSET Universe :
         /\ Cardinality(S) <= MaxNodes
         /\ words = connect_words(SortedSeq(S))
         /\ start \in Choices(S)
         /\ end \in Choices(S)
    /\ pc = "call" /\ open = {} /\ g_score = <<>> /\ f_score = <<>> /\ came_from = <<>>
    /\ node = 0 /\ path = <<>> /\ result = None /\ prev = NoCall

\* lines 140-148
WeaveCall ==
    /\ pc = "call"
    /\ LET start_idx == Position(words, start) IN
       IF ~start_idx.some
       THEN pc' = "panic" /\ UNCHANGED <<open, g_score, f_score, came_from>>
       ELSE /\ open' = {start_idx.val}
            /\ g_score' = [k \in 1..Len(words) |-> IF k = start_idx.val + 1 THEN 0 ELSE U16Max]
            /\ f_score' = [k \in 1..Len(words) |-> IF k = start_idx.val + 1 THEN 0 ELSE U16Max]
            /\ came_from' = [k \in 1..Len(words) |-> U32Max]
            /\ pc' = "loop"
    /\ UNCHANGED <<start, end, words, node, path, result, prev, cvars, bvars>>

\* lines 150-155 and 169-180: a node other than end is selected and expanded
Expand ==
    /\ pc = "loop"
    /\ \E n \in MinByKey(open, g_score, words, end) :
         /\ At(words, n).word # end
         /\ node' = n
         /\ LET st == Relax([open |-> open \ {n}, g |-> g_score, f |-> f_score, cf |-> came_from],
                            words, end, n, 1)
            IN  open' = st.open /\ g_score' = st.g /\ f_score' = st.f /\ came_from' = st.cf
    /\ UNCHANGED <<pc, start, end, words, path, result, prev, cvars, bvars>>

\* lines 150-157: end is selected
Found ==
    /\ pc = "loop"
    /\ \E n \in MinByKey(open, g_score, words, end) :
         /\ At(words, n).word = end
         /\ node' = n
    /\ path' = <<>>
    /\ pc' = "rebuild"
    /\ UNCHANGED <<start, end, words, open, g_score, f_score, came_from, result, prev, cvars, bvars>>

\* lines 159-162, one iteration
RebuildStep ==
    /\ pc = "rebuild"
    /\ At(came_from, node) # U32Max
    /\ path' = Insert0(path, At(words, node).word)
    /\ node' = At(came_from, node)
    /\ UNCHANGED <<pc, start, end, words, open, g_score, f_score, came_from, result, prev, cvars, bvars>>

\* lines 164-166
RebuildReturn ==
    /\ pc = "rebuild"
    /\ At(came_from, node) = U32Max
    /\ path' = Insert0(path, At(words, node).word)
    /\ result' = Some(path')
    /\ pc' = "done"
    /\ UNCHANGED <<start, end, words, open, g_score, f_score, came_from, node, prev, cvars, bvars>>

\* line 183: the open set is empty
Exhausted ==
    /\ pc = "loop"
    /\ open = {}
    /\ result' = None
    /\ pc' = "done"
    /\ UNCHANGED <<start, end, words, open, g_score, f_score, came_from, node, path, prev, cvars, bvars>>

WeaveNext == WeaveCall \/ Expand \/ Found \/ RebuildStep \/ RebuildReturn \/ Exhausted

Init == WeaveInit /\ CodecIdle /\ BuildIdle

Spec == Init /\ [][WeaveNext]_vars

FairSpec == Spec /\ WF_vars(WeaveNext)

\* weave is called once more with the same arguments (a second run of the program)
CallAgain ==
    /\ pc = "done"
    /\ ~prev.called
    /\ prev' = [called |-> TRUE, result |-> result]
    /\ pc' = "call" /\ open' = {} /\ g_score' = <<>> /\ f_score' = <<>> /\ came_from' = <<>>
    /\ node' = 0 /\ path' = <<>> /\ result' = None
    /\ UNCHANGED <<start, end, words, cvars, bvars>>

RepeatNext == WeaveNext \/ CallAgain

RepeatSpec == Init /\ [][RepeatNext]_vars

\* ================================================================== properties
\* ------------------------------------------------------------------ graph notions
NodeIdx(ws) == 0..(Len(ws) - 1)

Listed(ws, a, b) == \E k \in 1..Len(At(ws, a).connected) : At(ws, a).connected[k] = b

IdxOf(ws, w) == CHOOSE n \in NodeIdx(ws) : At(ws, n).word = w

IsNode(ws, w) == \E n \in NodeIdx(ws) : At(ws, n).word = w

\* larger than the cost of any simple path
Far(ws) == WordLen * Len(ws) + 1

Least(S) == CHOOSE x \in S : \A y \in S : x <= y

\* the listed connections with their costs: <<m, n, distance of the two words>>
Edges(ws) ==
    UNION {{<<m, At(ws, m).connected[k],
              distance(At(ws, m).word, At(ws, At(ws, m).connected[k]).word)>> :
              k \in 1..Len(At(ws, m).connected)} : m \in NodeIdx(ws)}

\* one round of relaxing every edge into node n; D is the sequence of the costs so far
RelaxInto(E, far, D, n) ==
    Least({At(D, n)} \cup {At(D, e[1]) + e[3] : e \in {x \in E : x[2] = n /\ At(D, x[1]) < far}})

RECURSIVE RelaxAll(_, _, _, _)
RelaxAll(E, far, D, k) ==
    IF k = 0 THEN <<>> ELSE Append(RelaxAll(E, far, D, k - 1), RelaxInto(E, far, D, k - 1))

RECURSIVE CostAfter(_, _, _, _)
CostAfter(E, far, D, k) ==
    IF k = 0 THEN D ELSE CostAfter(E, far, RelaxAll(E, far, D, Len(D)), k - 1)

RECURSIVE CostStart(_, _, _)
CostStart(far, s, k) ==
    IF k = 0 THEN <<>> ELSE Append(CostStart(far, s, k - 1), IF k - 1 = s THEN 0 ELSE far)

\* the least cost of a path from node s to each node
CostFrom(ws, s) == CostAfter(Edges(ws), Far(ws), CostStart(Far(ws), s, Len(ws)), Len(ws))

\* least cost over all paths from word a to word b, Far if there is none
MinCost(ws, a, b) == At(CostFrom(ws, IdxOf(ws, a)), IdxOf(ws, b))

Reachable(ws, a, b) == IsNode(ws, a) /\ IsNode(ws, b) /\ MinCost(ws, a, b) < Far(ws)

RECURSIVE PathCost(_)
PathCost(p) == IF Len(p) <= 1 THEN 0 ELSE distance(p[1], p[2]) + PathCost(Tail(p))

Returned == pc = "done"

\* C1: whenever end is reachable from start, weave returns a path whose total
\* cost (the sum of distance over consecutive words) is the least cost of any
\* path from start to end in the graph, and from the moment end is selected
\* from the open set its g_score is that least cost.
Optimality ==
    (((pc = "rebuild" /\ path = <<>>) \/ Returned)
       /\ IsNode(words, start) /\ IsNode(words, end)) =>
        LET least == MinCost(words, start, end) IN
        (least < Far(words)) =>
            /\ At(g_score, IdxOf(words, end)) = least
            /\ (Returned => (result.some /\ PathCost(result.val) = least))

\* a returned path that had to take a detour: it costs more than distance(start, end)
OptimalityWitness ==
    /\ Returned /\ result.some
    /\ PathCost(result.val) > distance(start, end)
    /\ PathCost(result.val) = MinCost(words, start, end)

\* C2: a returned path is non-empty, begins with start, ends with end, and each
\* two consecutive words are nodes listed in each other's connection list; when
\* start = end it is the one word start.
PathWellFormed ==
    (Returned /\ result.some) =>
        LET p == result.val IN
        /\ Len(p) >= 1
        /\ p[1] = start
        /\ p[Len(p)] = end
        /\ \A k \in 1..(Len(p) - 1) :
             /\ IsNode(words, p[k]) /\ IsNode(words, p[k + 1])
             /\ Listed(words, IdxOf(words, p[k]), IdxOf(words, p[k + 1]))
             /\ Listed(words, IdxOf(words, p[k + 1]), IdxOf(words, p[k]))
        /\ start = end => p = <<start>>

PathWellFormedWitness == Returned /\ result.some /\ Len(result.val) >= 4

\* C3: with start and end both nodes and end not reachable from start, weave
\* does not panic and returns None, with the open set empty; and a returned
\* None means end is not reachable from start.
NoPathIsNone ==
    /\ pc = "panic" => ~(IsNode(words, start) /\ IsNode(words, end))
    /\ (Returned /\ IsNode(words, start) /\ IsNode(words, end)
          /\ ~Reachable(words, start, end)) => result = None /\ open = {}
    /\ (Returned /\ result = None) => ~Reachable(words, start, end)

\* None after a search that reached a node besides start and left two unreached
NoPathIsNoneWitness ==
    /\ Returned /\ result = None
    /\ IsNode(words, start) /\ IsNode(words, end)
    /\ Cardinality({n \in NodeIdx(words) : At(g_score, n) < U16Max}) >= 2
    /\ Cardinality({n \in NodeIdx(words) : At(g_score, n) = U16Max}) >= 2

\* C7: a start or end that is no node of the graph is answered with an error
\* of its own: weave neither panics nor returns the no-path result None.
MissingWordReported ==
    (~IsNode(words, start) \/ ~IsNode(words, end)) =>
        /\ pc # "panic"
        /\ Returned => result # None

\* ------------------------------------------------------------------ termination
\* an expansion changes a g_score only by lowering it, and puts into the open
\* set exactly the nodes whose g_score it lowered
InsertOnlyOnDecrease ==
    (pc = "loop" /\ pc' = "loop") =>
        \A n \in NodeIdx(words) :
            /\ At(g_score', n) <= At(g_score, n)
            /\ (n \in open' /\ (n \notin open \/ n = node')) => At(g_score', n) < At(g_score, n)
            /\ At(g_score', n) < At(g_score, n) => n \in open'

\* came_from leads to a strictly smaller g_score, and start is the one reached
\* node without a predecessor
PredecessorsDescend ==
    pc \in {"loop", "rebuild", "done"} =>
        \A n \in NodeIdx(words) :
            /\ At(came_from, n) # U32Max =>
                 /\ At(came_from, n) \in NodeIdx(words)
                 /\ At(g_score, At(came_from, n)) < At(g_score, n)
            /\ At(g_score, n) < U16Max =>
                 (At(came_from, n) = U32Max <=> At(words, n).word = start)

RECURSIVE SumTo(_, _)
SumTo(v, k) == IF k = 0 THEN 0 ELSE v[k] + SumTo(v, k - 1)

\* a number that every step of weave lowers: the steps left are at most Rank
RebuildRank == 1 + At(g_score, node)

LoopRank == (U16Max + 2) + SumTo(g_score, Len(g_score)) * (Len(words) + 1) + Cardinality(open)

CallRank == (U16Max + 2) + Len(words) * U16Max * (Len(words) + 1) + Len(words) + 1

Rank ==
    CASE pc = "call" -> CallRank
      [] pc = "loop" -> LoopRank
      [] pc = "rebuild" -> RebuildRank
      [] OTHER -> 0

\* weave has ended: it returned, or panicked at the unwrap for a missing start
Ended == pc \in {"done", "panic"}

\* the guards of weave's steps: one of them can be taken
CanStep ==
    CASE pc = "call" -> TRUE
      [] pc = "loop" -> open = {} \/ MinByKey(open, g_score, words, end) # {}
      [] pc = "rebuild" -> node \in NodeIdx(words)
      [] OTHER -> FALSE

CanStepIsEnabled == CanStep <=> ENABLED WeaveNext

\* C9: every call of weave ends, and with start a node it ends by returning:
\* each step of the main loop and of the path reconstruction lowers the natural
\* number Rank and a step is possible until weave has ended; the open set
\* receives a node only when that node's g_score strictly decreases; and
\* came_from strictly decreases g_score and stops at start, the only reached
\* node without a predecessor.
Termination ==
    [][/\ Rank' < Rank
       /\ Rank' >= 0
       /\ (Rank' = 0 <=> Ended')
       /\ (~Ended' => CanStep')
       /\ (pc' = "panic" => ~IsNode(words, start))
       /\ InsertOnlyOnDecrease
       /\ PredecessorsDescend']_vars

\* the same as a property of the runs, under weak fairness of weave's steps
EventuallyEnds == <>Ended

\* a returned path of three edges, rebuilt after a search that reached five nodes
TerminationWitness ==
    /\ Returned /\ result.some /\ Len(result.val) >= 4
    /\ Cardinality({n \in NodeIdx(words) : At(g_score, n) < U16Max}) >= 5

\* ------------------------------------------------------------------ repeated calls
\* C6: two calls of weave with the same dictionary, start and end return the
\* same path, whichever least member of the open set min_by_key yields.
Deterministic == (Returned /\ prev.called) => result = prev.result

\* ------------------------------------------------------------------ connect_words
Built == bpc = "returned"

DifferingPositions(a, b) == {i \in 0..(WordLen - 1) : get_letter(a, i) # get_letter(b, i)}

\* C4: after connect_words, for distinct nodes A and B, B's index is in A's
\* connection list exactly if their words agree on all positions but one
\* (however far apart the two letters there are, and whether or not the words
\* between them exist); so A's index is in B's list whenever B's is in A's.
EdgesExact ==
    Built =>
        \A a, b \in NodeIdx(bnodes) :
            a # b =>
                /\ Listed(bnodes, a, b) <=>
                     Cardinality(DifferingPositions(At(bnodes, a).word, At(bnodes, b).word)) = 1
                /\ Listed(bnodes, a, b) => Listed(bnodes, b, a)

\* an edge between two words two or more letters apart at the last position, the
\* word one letter below the higher one being no node
EdgesExactWitness ==
    /\ Built
    /\ \E a, b \in NodeIdx(bnodes) :
         /\ Listed(bnodes, a, b)
         /\ At(bnodes, b).word - At(bnodes, a).word \in 2..(Radix - 1)
         /\ ~IsNode(bnodes, At(bnodes, b).word - 1)

\* C10: after connect_words on any input, repeated words included, the nodes
\* are strictly ascending by encoded value, no connection list holds its own
\* node's index or an index twice, and every listed connection joins two words
\* at distance exactly 1.
NodesClean ==
    Built =>
        /\ \A k \in 1..(Len(bnodes) - 1) : bnodes[k].word < bnodes[k + 1].word
        /\ \A a \in NodeIdx(bnodes) :
             LET conn == At(bnodes, a).connected IN
             /\ \A i \in 1..Len(conn) :
                  /\ conn[i] \in NodeIdx(bnodes)
                  /\ conn[i] # a
                  /\ distance(At(bnodes, a).word, At(bnodes, conn[i]).word) = 1
             /\ \A i, j \in 1..Len(conn) : i # j => conn[i] # conn[j]

\* a graph built from an input with a repeated word, a node of it with two connections
NodesCleanWitness ==
    /\ Built
    /\ Len(bin) > Len(bnodes)
    /\ \E a \in NodeIdx(bnodes) : Len(At(bnodes, a).connected) >= 2

\* ------------------------------------------------------------------ codec
ValidWord(s) == Len(s) = WordLen /\ \A i \in 1..Len(s) : IsLower(s[i])

InvalidWordReported ==
    (cin.kind = "str" /\ cpc # "str" /\ ~ValidWord(cin.s)) => cpc = "invalid_word"

\* what Word::new does instead: it panics on exactly these strings, and encodes the others
PanicsExactlyOnInvalid ==
    (cin.kind = "str" /\ cpc # "str") => (cpc = "panic" <=> ~ValidWord(cin.s))

====
